---- MODULE Spec2Model ----
(***************************************************************************)
(* Complaint deduplication engine of backend-database-service:             *)
(* DuplicateChecker (duplicate_checker.py) and MongoOperations             *)
(* (mongo_operations.py), modelled as concurrent asyncio request handlers  *)
(* over one shared MongoDB collection.  Every await of the handlers is a   *)
(* suspension point, hence one action per await.                           *)
(*                                                                         *)
(* Texts are sequences of one-character strings.  Time is counted in       *)
(* fractions of a day, UnitsPerDay to the day.                             *)
(***************************************************************************)
EXTENDS Integers, Sequences, FiniteSets, TLC

(***************************************************************************)
(* Bounds of the model.                                                    *)
(***************************************************************************)
MaxCreates == 2
MaxUpdates == 1
MaxTicks == 2
MaxFaults == 1
MaxPreload == 11
UnitsPerDay == 2

(***************************************************************************)
(* Program constants.                                                      *)
(***************************************************************************)
TimeWindowDays == 7
\* timedelta(days=self.time_window_days)
Window == TimeWindowDays * UnitsPerDay
CandidateLimit == 10
\* similarity_threshold = 0.85, kept as the exact fraction 85/100
ThresholdNum == 85
ThresholdDen == 100
\* the flat subject bonus 0.1, as the exact fraction 1/10
BonusNum == 1
BonusDen == 10

(***************************************************************************)
(* A local variable: Only({e : x \in {v}}) is e with x the value of v,      *)
(* v evaluated once.                                                       *)
(***************************************************************************)
Only(S) == CHOOSE r \in S : TRUE

(***************************************************************************)
(* Characters (str.lower, \s and \w of the re module).                     *)
(***************************************************************************)
UpperLetters == <<"A","B","C","D","E","F","G","H","I","J","K","L","M",
                  "N","O","P","Q","R","S","T","U","V","W","X","Y","Z">>
LowerLetters == <<"a","b","c","d","e","f","g","h","i","j","k","l","m",
                  "n","o","p","q","r","s","t","u","v","w","x","y","z">>
Digits == {"0","1","2","3","4","5","6","7","8","9"}

ToLower(c) ==
  IF \E i \in 1..26 : UpperLetters[i] = c
    THEN LowerLetters[CHOOSE i \in 1..26 : UpperLetters[i] = c]
    ELSE c

IsSpace(c) == c \in {" ", "\t", "\n", "\r"}

IsWord(c) ==
  \/ \E i \in 1..26 : UpperLetters[i] = c \/ LowerLetters[i] = c
  \/ c \in Digits
  \/ c = "_"

\* str.lower()
Lower(s) == [i \in 1..Len(s) |-> ToLower(s[i])]

RECURSIVE LStrip(_)
LStrip(s) ==
  IF s = <<>> THEN <<>>
  ELSE IF IsSpace(Head(s)) THEN LStrip(Tail(s)) ELSE s

RECURSIVE RStrip(_)
RStrip(s) ==
  IF s = <<>> THEN <<>>
  ELSE IF IsSpace(s[Len(s)]) THEN RStrip(SubSeq(s, 1, Len(s) - 1)) ELSE s

\* str.strip()
Strip(s) == Only({RStrip(t) : t \in {LStrip(s)}})


\* re.sub(r"\s+", " ", text)
RECURSIVE CollapseWs(_)
CollapseWs(s) ==
  IF s = <<>> THEN <<>>
  ELSE IF IsSpace(Head(s)) THEN <<" ">> \o CollapseWs(LStrip(s))
  ELSE <<Head(s)>> \o CollapseWs(Tail(s))

\* re.sub(r"\s+", " ", text).strip()
Squeeze(s) == Only({Strip(t) : t \in {CollapseWs(s)}})

(***************************************************************************)
(* The noise pattern \b(please|thanks?|thank you|hi|hello|dear|regards?)\b *)
(* as the regex engine tries it: alternatives left to right, the optional  *)
(* s greedy first, each followed by the closing \b.                        *)
(***************************************************************************)
NoiseAlternatives ==
  << <<"p","l","e","a","s","e">>,
     <<"t","h","a","n","k","s">>,
     <<"t","h","a","n","k">>,
     <<"t","h","a","n","k"," ","y","o","u">>,
     <<"h","i">>,
     <<"h","e","l","l","o">>,
     <<"d","e","a","r">>,
     <<"r","e","g","a","r","d","s">>,
     <<"r","e","g","a","r","d">> >>

\* \b between positions i-1 and i of t
WordBoundary(t, i) ==
  LET before == i > 1 /\ i - 1 <= Len(t) /\ IsWord(t[i - 1])
      after  == i >= 1 /\ i <= Len(t) /\ IsWord(t[i])
  IN before # after

NoiseMatches(t, i, w) ==
  /\ i + Len(w) - 1 <= Len(t)
  /\ SubSeq(t, i, i + Len(w) - 1) = w
  /\ WordBoundary(t, i)
  /\ WordBoundary(t, i + Len(w))

\* length of the match of the noise pattern at position i, 0 when none
NoiseMatchLen(t, i) ==
  IF \E k \in 1..Len(NoiseAlternatives) : NoiseMatches(t, i, NoiseAlternatives[k])
    THEN Len(NoiseAlternatives[
           CHOOSE k \in 1..Len(NoiseAlternatives) :
             /\ NoiseMatches(t, i, NoiseAlternatives[k])
             /\ \A j \in 1..(k - 1) : ~NoiseMatches(t, i, NoiseAlternatives[j])])
    ELSE 0

\* re.sub(pattern, " ", text), scanning from position i
RECURSIVE RemoveNoise(_, _)
RemoveNoise(t, i) ==
  IF i > Len(t) THEN <<>>
  ELSE Only({IF n > 0 THEN <<" ">> \o RemoveNoise(t, i + n)
                      ELSE <<t[i]>> \o RemoveNoise(t, i + 1) :
              n \in {NoiseMatchLen(t, i)}})

\* the normalizer without its last line, the second white-space pass
NormalizeText_OnePass(text) ==
  IF text = <<>> THEN <<>>
  ELSE Only({RemoveNoise(t1, 1) :
               t1 \in {Squeeze(lowered) : lowered \in {Lower(text)}}})

\* DuplicateChecker._normalize_text
NormalizeText(text) ==
  IF text = <<>> THEN <<>>
  ELSE Only({Squeeze(t2) :
               t2 \in {RemoveNoise(t1, 1) :
                         t1 \in {Squeeze(lowered) : lowered \in {Lower(text)}}}})

(***************************************************************************)
(* difflib.SequenceMatcher(None, a, b).ratio() without junk (texts are     *)
(* shorter than the 200 characters at which autojunk starts).              *)
(***************************************************************************)
\* length of the common run of a from i and b from j inside [.., ahi) x [.., bhi)
RECURSIVE RunLen(_, _, _, _, _, _)
RunLen(a, i, ahi, b, j, bhi) ==
  IF i < ahi /\ j < bhi /\ a[i] = b[j]
    THEN 1 + RunLen(a, i + 1, ahi, b, j + 1, bhi)
    ELSE 0

\* the start <<i, j>> that is earliest in a and, among those, earliest in b
Earliest(hits) ==
  CHOOSE p \in hits :
    \A q \in hits : p[1] < q[1] \/ (p[1] = q[1] /\ p[2] <= q[2])

\* find_longest_match: <<i, j, k>>, the longest block, earliest in a and then
\* earliest in b among the longest; half-open ranges, 1-based
FindLongestMatch(a, alo, ahi, b, blo, bhi) ==
  LET starts == (alo..(ahi - 1)) \X (blo..(bhi - 1))
      Run(p) == RunLen(a, p[1], ahi, b, p[2], bhi)
      Longest == IF starts = {} THEN 0
                 ELSE CHOOSE k \in 0..(ahi - alo) :
                        /\ \A p \in starts : Run(p) <= k
                        /\ k > 0 => \E p \in starts : Run(p) = k
  IN Only({IF best = 0 THEN <<alo, blo, 0>>
           ELSE Only({<<p[1], p[2], best>> :
                        p \in {Earliest(hits) :
                                 hits \in {{q \in starts : Run(q) = best}}}}) :
             best \in {Longest}})

\* sum of the sizes of get_matching_blocks
RECURSIVE MatchedChars(_, _, _, _, _, _)
MatchedChars(a, alo, ahi, b, blo, bhi) ==
  Only({IF m[3] = 0 THEN 0
        ELSE m[3]
             + (IF alo < m[1] /\ blo < m[2]
                  THEN MatchedChars(a, alo, m[1], b, blo, m[2]) ELSE 0)
             + (IF m[1] + m[3] < ahi /\ m[2] + m[3] < bhi
                  THEN MatchedChars(a, m[1] + m[3], ahi, b, m[2] + m[3], bhi)
                  ELSE 0) :
          m \in {FindLongestMatch(a, alo, ahi, b, blo, bhi)}})

\* ratio() as the exact fraction <<numerator, denominator>>: 2.0*M/T, and 1.0
\* when both texts are empty
Ratio(a, b) ==
  IF Len(a) + Len(b) = 0 THEN <<1, 1>>
  ELSE <<2 * MatchedChars(a, 1, Len(a) + 1, b, 1, Len(b) + 1), Len(a) + Len(b)>>


(***************************************************************************)
(* Identifiers.  The store keys records by ObjectId (a number here);       *)
(* str(oid) is the 24-digit hex text of it and ObjectId(text) its inverse. *)
(***************************************************************************)
StrOf(oid) == <<"hex", oid>>
ObjectId(s) == s[2]
\* Python None for an identifier
None == <<>>
\* a well-formed identifier that no record has, and a malformed one
AbsentId == 0
InvalidId == -1
ObjectIdIsValid(i) == i >= 0

\* dict.update / $set of the fields of upd over r
Merge(r, upd) ==
  [f \in (DOMAIN r) \cup (DOMAIN upd) |-> IF f \in DOMAIN upd THEN upd[f] ELSE r[f]]

(***************************************************************************)
(* Complaints submitted to POST /complaints.                               *)
(***************************************************************************)
EmailLower == <<"a","@","x">>
EmailUpper == <<"A","@","x">>

Submission(email, subject, description, category) ==
  [customerEmail |-> email, subject |-> subject, description |-> description,
   category |-> category, status |-> "new"]

\* one customer, one category, two similar texts
Complaints ==
  { Submission(EmailLower, <<"a","b">>, <<"c">>, "billing"),
    Submission(EmailLower, <<"a","b">>, <<"d">>, "billing") }

\* the same with a respelling of the second, the text of the first in the
\* subject alone, another category and another spelling of the address
QueryComplaints ==
  Complaints \cup
  { Submission(EmailLower, <<"A","b">>, <<"h","i"," ","d">>, "billing"),
    Submission(EmailLower, <<"a","b"," ","c">>, <<>>, "billing"),
    Submission(EmailLower, <<"a","b">>, <<"d">>, "delivery"),
    Submission(EmailUpper, <<"a","b">>, <<"c">>, "billing") }

\* the history entry the analysis service sends along
AnalysisEntry ==
  [action |-> "ai_analysis_completed", timestamp |-> 0, userId |-> "claude_ai",
   details |-> [model |-> "m"]]

\* the same complaints as the callers of POST /complaints may send them: with
\* a status of their own and with a history of their own
SubmittedComplaints ==
  {Merge(c, f) : c \in Complaints,
                 f \in {[status |-> "new"],
                        [status |-> "resolved"],
                        [processingHistory |-> <<AnalysisEntry>>],
                        [status |-> "resolved", processingHistory |-> <<AnalysisEntry>>]}}

\* a complaint unlike all of the above
Filler == Submission(EmailLower, <<"z","z">>, <<"q">>, "billing")

(***************************************************************************)
(* DuplicateChecker                                                        *)
(***************************************************************************)
Bar == <<"|">>

\* hashlib.md5(..).hexdigest(): a digest taken as collision-free
Md5Hex(s) == <<"md5", s>>

\* the hash over the subject as it was typed
GenerateContentHash_SubjectAsTyped(c) ==
  Md5Hex(Strip(Lower(c.customerEmail)) \o Bar
         \o c.subject \o Bar
         \o NormalizeText(c.description))

\* DuplicateChecker._generate_content_hash
GenerateContentHash(c) ==
  Md5Hex(Strip(Lower(c.customerEmail)) \o Bar
         \o Strip(Lower(c.subject)) \o Bar
         \o NormalizeText(c.description))

\* f"{subject} {description}"
ComparisonText(c) == c.subject \o <<" ">> \o c.description

\* the subjects compared as they were typed
SameSubject_CaseSensitive(c1, c2) == Strip(c1.subject) = Strip(c2.subject)

\* complaint1["subject"].lower().strip() == complaint2["subject"].lower().strip()
SameSubject(c1, c2) == Strip(Lower(c1.subject)) = Strip(Lower(c2.subject))

\* DuplicateChecker._calculate_text_similarity as the exact fraction
\* <<numerator, denominator>>: ratio, plus 0.1 capped at 1.0 when the subjects
\* are equal
CalculateTextSimilarity(c1, c2) ==
  Only({LET bonus == <<BonusDen * r[1] + BonusNum * r[2], BonusDen * r[2]>>
        IN IF SameSubject(c1, c2)
             THEN (IF bonus[1] > bonus[2] THEN <<1, 1>> ELSE bonus)
             ELSE r :
          r \in {Ratio(text1, text2) :
                   text1 \in {NormalizeText(ComparisonText(c1))},
                   text2 \in {NormalizeText(ComparisonText(c2))}}})

\* the comparison as similarity > threshold
ClearsThreshold_Strict(sim) == sim[1] * ThresholdDen > ThresholdNum * sim[2]

\* similarity >= self.similarity_threshold
ClearsThreshold(sim) == sim[1] * ThresholdDen >= ThresholdNum * sim[2]

\* "$or": [{"isDuplicate": {"$exists": False}}, {"isDuplicate": False}]
NotFlagged(r) == "isDuplicate" \notin DOMAIN r \/ r.isDuplicate = FALSE

\* the filter of find_one without its createdDate condition
ExactMatches_AnyAge(st, doc, cutoff) ==
  Only({{i \in DOMAIN st :
           /\ st[i].customerEmail = doc.customerEmail
           /\ "contentHash" \in DOMAIN st[i]
           /\ st[i].contentHash = content_hash} :
          content_hash \in {GenerateContentHash(doc)}})

\* the filter of find_one in _check_exact_duplicate
ExactMatches(st, doc, cutoff) ==
  Only({{i \in DOMAIN st :
           /\ st[i].customerEmail = doc.customerEmail
           /\ "contentHash" \in DOMAIN st[i]
           /\ st[i].contentHash = content_hash
           /\ st[i].createdDate >= cutoff} :
          content_hash \in {GenerateContentHash(doc)}})

\* the filter of find with the isDuplicate condition the other way round
Eligible_FlaggedOnly(st, doc, cutoff) ==
  {i \in DOMAIN st :
     /\ st[i].customerEmail = doc.customerEmail
     /\ st[i].category = doc.category
     /\ st[i].createdDate >= cutoff
     /\ ~NotFlagged(st[i])}

\* the filter of find in _check_similar_duplicate
Eligible(st, doc, cutoff) ==
  {i \in DOMAIN st :
     /\ st[i].customerEmail = doc.customerEmail
     /\ st[i].category = doc.category
     /\ st[i].createdDate >= cutoff
     /\ NotFlagged(st[i])}

\* .sort("createdDate", -1): every order of S with createdDate descending;
\* the order among records of equal createdDate is up to the store
RECURSIVE SortedOrders(_, _)
SortedOrders(st, S) ==
  IF S = {} THEN {<<>>}
  ELSE UNION {{<<i>> \o t : t \in SortedOrders(st, S \ {i})} :
                i \in {j \in S : \A k \in S : st[k].createdDate <= st[j].createdDate}}

\* the query without .limit(10)
Limit_Unbounded(s) == s

\* .limit(10) / to_list(length=10)
Limit(s) == IF Len(s) > CandidateLimit THEN SubSeq(s, 1, CandidateLimit) ELSE s

\* the lists the candidate query can return
CandidateLists(st, doc, cutoff) ==
  {Limit(s) : s \in SortedOrders(st, Eligible(st, doc, cutoff))}

\* the loop as a search for the best score: position of the highest-scoring
\* candidate that clears the threshold, 0 when none does
FirstHit_BestScore(st, doc, cands) ==
  LET sim == [n \in 1..Len(cands) |-> CalculateTextSimilarity(doc, st[cands[n]])]
      ok == {n \in 1..Len(cands) : ClearsThreshold(sim[n])}
  IN IF ok = {} THEN 0
     ELSE CHOOSE n \in ok :
            \A m \in ok : /\ sim[m][1] * sim[n][2] <= sim[n][1] * sim[m][2]
                          /\ (sim[m][1] * sim[n][2] = sim[n][1] * sim[m][2] => n <= m)

\* the loop over the candidates: position of the first one that clears the
\* threshold, 0 when none does
FirstHit(st, doc, cands) ==
  Only({IF clears = {} THEN 0
        ELSE CHOOSE n \in clears : \A m \in clears : n <= m :
          clears \in {{n \in 1..Len(cands) :
                         ClearsThreshold(CalculateTextSimilarity(doc, st[cands[n]]))}}})


(***************************************************************************)
(* State.                                                                  *)
(***************************************************************************)
VARIABLES
  store,     \* the complaints collection: ObjectId -> document
  natural,   \* the ObjectIds of the collection in the order of insertion
  now,       \* datetime.utcnow(), in days
  ticks,     \* clock advances so far
  faults,    \* store accesses that failed so far
  nextId,    \* the next ObjectId the PyObjectId factory hands out
  nCreates,  \* create_complaint requests started so far
  nUpdates,  \* update_complaint requests started so far
  req,       \* the create_complaint handlers: position and locals
  upd        \* the update_complaint handler: position and locals

vars == <<store, natural, now, ticks, faults, nextId, nCreates, nUpdates, req, upd>>

CreateHandlers == {"h1", "h2"}
\* the server gives a request to its first free handler
HandlerOrder == <<"h1", "h2">>

NoDoc == [none |-> TRUE]

IdleReq ==
  [pc |-> "idle", id |-> AbsentId, doc |-> NoDoc, cutoff |-> 0, orig |-> None,
   exactFound |-> FALSE, queried |-> FALSE, cands |-> <<>>, scored |-> <<>>,
   checkFailed |-> FALSE, linkFailed |-> FALSE, result |-> None]

IdleUpd ==
  [pc |-> "idle", id |-> AbsentId, data |-> NoDoc, result |-> FALSE]

\* the steps the clock takes between two requests: an instant or a whole window
TickSteps == {1, Window}

\* processingHistory entries
\* the created entry with line 105 taken on both branches
CreatedEntry_AlwaysOriginal(t, isDup, orig) ==
  [action |-> "created", timestamp |-> t, userId |-> "system",
   details |-> [source |-> "email-service", isDuplicate |-> isDup,
                originalComplaintId |-> orig]]

CreatedEntry(t, isDup, orig) ==
  [action |-> "created", timestamp |-> t, userId |-> "system",
   details |-> IF isDup
                 THEN [source |-> "email-service", isDuplicate |-> TRUE,
                       originalComplaintId |-> orig]
                 ELSE [source |-> "email-service", isDuplicate |-> FALSE]]

LinkedEntry(t, dupId) ==
  [action |-> "duplicate_linked", timestamp |-> t, userId |-> "system",
   details |-> [duplicateComplaintId |-> dupId]]

UpdatedEntry(t, keys) ==
  [action |-> "updated", timestamp |-> t, userId |-> "system",
   details |-> [fields_updated |-> keys]]

\* create_complaint lines 77-80: complaint_to_dict and the content hash
\* (isDuplicate and originalComplaintId are no fields of ComplaintModel)
ComplaintToDict(c, t) ==
  Merge(Merge([status |-> "new", createdDate |-> t, lastUpdated |-> t,
               relatedComplaints |-> <<>>, processingHistory |-> <<>>], c),
        [contentHash |-> GenerateContentHash(c)])

\* the verdict written without line 87, the status left as submitted
WithVerdict_KeepsStatus(doc, orig, t) ==
  LET isDup == orig # None
  IN Merge(doc,
       [isDuplicate |-> isDup,
        originalComplaintId |-> orig,
        processingHistory |-> Append(doc.processingHistory, CreatedEntry(t, isDup, orig))])

\* create_complaint lines 84-107: the verdict written into the document
WithVerdict(doc, orig, t) ==
  LET isDup == orig # None
  IN Merge(doc,
       [isDuplicate |-> isDup,
        originalComplaintId |-> orig,
        status |-> IF isDup THEN "duplicate" ELSE doc.status,
        processingHistory |-> Append(doc.processingHistory, CreatedEntry(t, isDup, orig))])

\* the array field written whole, as $set would
AddToSet_Replaces(s, x) == <<x>>

\* $addToSet on an array field
AddToSet(s, x) == IF \E i \in 1..Len(s) : s[i] = x THEN s ELSE Append(s, x)

TypeOK ==
  /\ now \in Nat /\ ticks \in 0..MaxTicks + 1 /\ faults \in Nat
  /\ nextId \in Nat /\ nCreates \in Nat /\ nUpdates \in Nat
  /\ DOMAIN store \subseteq 1..(nextId - 1)
  /\ {natural[i] : i \in 1..Len(natural)} = DOMAIN store
  /\ DOMAIN req = CreateHandlers

Init ==
  /\ store = <<>>
  /\ natural = <<>>
  /\ now = 0
  /\ ticks = 0
  /\ faults = 0
  /\ nextId = 1
  /\ nCreates = 0
  /\ nUpdates = 0
  /\ req = [h \in CreateHandlers |-> IdleReq]
  /\ upd = IdleUpd

\* time passes: days go by between requests, a request is answered within
\* the day it arrived
Tick(d) ==
  /\ ticks < MaxTicks
  /\ \A h \in CreateHandlers : req[h].pc \in {"idle", "done", "raised"}
  /\ upd.pc \in {"idle", "done", "raised"}
  /\ now' = now + d
  /\ ticks' = ticks + 1
  /\ UNCHANGED <<store, natural, faults, nextId, nCreates, nUpdates, req, upd>>

(***************************************************************************)
(* MongoOperations.create_complaint                                        *)
(***************************************************************************)
\* the request with insert_one moved ahead of check_duplicate
CreateBegin_InsertsFirst(h, c, limit) ==
  /\ req[h].pc \in {"idle", "done", "raised"}
  /\ \E n \in 1..Len(HandlerOrder) :
       /\ HandlerOrder[n] = h
       /\ \A m \in 1..(n - 1) :
            req[HandlerOrder[m]].pc \notin {"idle", "done", "raised"}
  /\ nCreates < limit
  /\ req' = [req EXCEPT ![h] =
       [IdleReq EXCEPT !.pc = "exact", !.id = nextId,
                       !.doc = ComplaintToDict(c, now),
                       !.cutoff = now - Window]]
  /\ store' = [i \in (DOMAIN store) \cup {nextId} |->
                 IF i = nextId THEN WithVerdict(ComplaintToDict(c, now), None, now)
                 ELSE store[i]]
  /\ natural' = Append(natural, nextId)
  /\ nextId' = nextId + 1
  /\ nCreates' = nCreates + 1
  /\ UNCHANGED <<now, ticks, faults, nUpdates, upd>>

\* POST /complaints: the model is built (fresh _id, createdDate = utcnow),
\* hashed, and _check_exact_duplicate runs up to its await of find_one
CreateBegin(h, c, limit) ==
  /\ req[h].pc \in {"idle", "done", "raised"}
  /\ \E n \in 1..Len(HandlerOrder) :
       /\ HandlerOrder[n] = h
       /\ \A m \in 1..(n - 1) :
            req[HandlerOrder[m]].pc \notin {"idle", "done", "raised"}
  /\ nCreates < limit
  /\ req' = [req EXCEPT ![h] =
       [IdleReq EXCEPT !.pc = "exact", !.id = nextId,
                       !.doc = ComplaintToDict(c, now),
                       !.cutoff = now - Window]]
  /\ nextId' = nextId + 1
  /\ nCreates' = nCreates + 1
  /\ UNCHANGED <<store, natural, now, ticks, faults, nUpdates, upd>>

\* check_duplicate without its exception handler: the error reaches the caller
CheckFailed_Raises(r, t) ==
  [r EXCEPT !.pc = "raised", !.checkFailed = TRUE]

\* the exception handler of check_duplicate: log and return None
CheckFailed(r, t) ==
  [r EXCEPT !.pc = "insert", !.orig = None, !.checkFailed = TRUE,
            !.doc = WithVerdict(r.doc, None, t)]

\* find_one raises
ExactLookupFails(h) ==
  /\ req[h].pc = "exact"
  /\ faults < MaxFaults
  /\ faults' = faults + 1
  /\ req' = [req EXCEPT ![h] = CheckFailed(req[h], now)]
  /\ UNCHANGED <<store, natural, now, ticks, nextId, nCreates, nUpdates, upd>>

\* find_one without a sort: the first match in the order of insertion
FindOne(matches) ==
  natural[CHOOSE n \in 1..Len(natural) :
            /\ natural[n] \in matches
            /\ \A m \in 1..(n - 1) : natural[m] \notin matches]

\* find_one returns a record, and the similar check runs all the same
ExactLookupFinds_FallsThrough(h) ==
  /\ req[h].pc = "exact"
  /\ ExactMatches(store, req[h].doc, req[h].cutoff) # {}
  /\ req' = [req EXCEPT ![h] =
       [req[h] EXCEPT !.pc = "similar", !.exactFound = TRUE,
                      !.cutoff = now - Window]]
  /\ UNCHANGED <<store, natural, now, ticks, faults, nextId, nCreates, nUpdates, upd>>

\* find_one returns a record: check_duplicate returns its id at once
ExactLookupFinds(h) ==
  /\ req[h].pc = "exact"
  /\ ExactMatches(store, req[h].doc, req[h].cutoff) # {}
  /\ LET m == FindOne(ExactMatches(store, req[h].doc, req[h].cutoff))
     IN req' = [req EXCEPT ![h] =
          [req[h] EXCEPT !.pc = "insert", !.orig = StrOf(m), !.exactFound = TRUE,
                         !.doc = WithVerdict(req[h].doc, StrOf(m), now)]]
  /\ UNCHANGED <<store, natural, now, ticks, faults, nextId, nCreates, nUpdates, upd>>

\* find_one returns None: _check_similar_duplicate runs up to its await
ExactLookupMisses(h) ==
  /\ req[h].pc = "exact"
  /\ ExactMatches(store, req[h].doc, req[h].cutoff) = {}
  /\ req' = [req EXCEPT ![h] =
       [req[h] EXCEPT !.pc = "similar", !.cutoff = now - Window]]
  /\ UNCHANGED <<store, natural, now, ticks, faults, nextId, nCreates, nUpdates, upd>>

\* the candidate query raises
SimilarQueryFails(h) ==
  /\ req[h].pc = "similar"
  /\ faults < MaxFaults
  /\ faults' = faults + 1
  /\ req' = [req EXCEPT ![h] = CheckFailed(req[h], now)]
  /\ UNCHANGED <<store, natural, now, ticks, nextId, nCreates, nUpdates, upd>>

\* the candidate query returns and the candidates are scored in order
SimilarCheck(h) ==
  /\ req[h].pc = "similar"
  /\ \E cands \in CandidateLists(store, req[h].doc, req[h].cutoff) :
       LET hit == FirstHit(store, req[h].doc, cands)
           orig == IF hit = 0 THEN None ELSE StrOf(cands[hit])
       IN req' = [req EXCEPT ![h] =
            [req[h] EXCEPT !.pc = "insert", !.orig = orig, !.queried = TRUE,
                           !.cands = cands,
                           !.scored = IF hit = 0 THEN cands ELSE SubSeq(cands, 1, hit),
                           !.doc = WithVerdict(req[h].doc, orig, now)]]
  /\ UNCHANGED <<store, natural, now, ticks, faults, nextId, nCreates, nUpdates, upd>>

\* insert_one raises, the error is swallowed and the link update is still due
InsertFails_StillLinks(h) ==
  /\ req[h].pc = "insert"
  /\ faults < MaxFaults
  /\ faults' = faults + 1
  /\ req' = [req EXCEPT ![h].pc = IF req[h].orig # None THEN "link" ELSE "raised"]
  /\ UNCHANGED <<store, natural, now, ticks, nextId, nCreates, nUpdates, upd>>

\* insert_one raises: create_complaint logs and re-raises
InsertFails(h) ==
  /\ req[h].pc = "insert"
  /\ faults < MaxFaults
  /\ faults' = faults + 1
  /\ req' = [req EXCEPT ![h].pc = "raised"]
  /\ UNCHANGED <<store, natural, now, ticks, nextId, nCreates, nUpdates, upd>>

\* the link update made in the place of insert_one, which is still due
Insert_LinksFirst(h) ==
  /\ req[h].pc = "insert"
  /\ LET o == ObjectId(req[h].orig)
     IN IF req[h].orig # None /\ o \in DOMAIN store
          THEN /\ store' = [store EXCEPT ![o] =
                    Merge(store[o],
                      [relatedComplaints |->
                         AddToSet(store[o].relatedComplaints, req[h].id),
                       lastUpdated |-> now,
                       processingHistory |->
                         Append(store[o].processingHistory,
                                LinkedEntry(now, StrOf(req[h].id)))])]
               /\ natural' = natural
               /\ req' = [req EXCEPT ![h].orig = None]
          ELSE /\ store' = [i \in (DOMAIN store) \cup {req[h].id} |->
                             IF i = req[h].id THEN req[h].doc ELSE store[i]]
               /\ natural' = Append(natural, req[h].id)
               /\ req' = [req EXCEPT ![h] =
                    [req[h] EXCEPT !.pc = "done", !.result = StrOf(req[h].id)]]
  /\ UNCHANGED <<now, ticks, faults, nextId, nCreates, nUpdates, upd>>

\* insert_one succeeds
Insert(h) ==
  /\ req[h].pc = "insert"
  /\ store' = [i \in (DOMAIN store) \cup {req[h].id} |->
                 IF i = req[h].id THEN req[h].doc ELSE store[i]]
  /\ natural' = Append(natural, req[h].id)
  /\ req' = [req EXCEPT ![h] =
       IF req[h].orig # None
         THEN [req[h] EXCEPT !.pc = "link"]
         ELSE [req[h] EXCEPT !.pc = "done", !.result = StrOf(req[h].id)]]
  /\ UNCHANGED <<now, ticks, faults, nextId, nCreates, nUpdates, upd>>

\* the update document with relatedComplaints under $set
LinkUpdate_SetsRelated(r, dupId, t) ==
  Merge(r,
    [relatedComplaints |-> <<ObjectId(dupId)>>,
     lastUpdated |-> t,
     processingHistory |-> Append(r.processingHistory, LinkedEntry(t, dupId))])

\* _link_duplicate_complaints: the update document applied to the original
LinkUpdate(r, dupId, t) ==
  Merge(r,
    [relatedComplaints |-> AddToSet(r.relatedComplaints, ObjectId(dupId)),
     lastUpdated |-> t,
     processingHistory |-> Append(r.processingHistory, LinkedEntry(t, dupId))])

\* update_one on the original succeeds
Link(h) ==
  /\ req[h].pc = "link"
  /\ LET o == ObjectId(req[h].orig)
     IN store' = IF o \in DOMAIN store
                   THEN [store EXCEPT ![o] = LinkUpdate(store[o], StrOf(req[h].id), now)]
                   ELSE store
  /\ req' = [req EXCEPT ![h] =
       [req[h] EXCEPT !.pc = "done", !.result = StrOf(req[h].id)]]
  /\ UNCHANGED <<natural, now, ticks, faults, nextId, nCreates, nUpdates, upd>>

\* update_one on the original raises and the error reaches the caller
LinkFails_Raises(h) ==
  /\ req[h].pc = "link"
  /\ faults < MaxFaults
  /\ faults' = faults + 1
  /\ req' = [req EXCEPT ![h] = [req[h] EXCEPT !.pc = "raised", !.linkFailed = TRUE]]
  /\ UNCHANGED <<store, natural, now, ticks, nextId, nCreates, nUpdates, upd>>

\* update_one on the original raises: logged, create_complaint goes on
LinkFails(h) ==
  /\ req[h].pc = "link"
  /\ faults < MaxFaults
  /\ faults' = faults + 1
  /\ req' = [req EXCEPT ![h] =
       [req[h] EXCEPT !.pc = "done", !.linkFailed = TRUE,
                      !.result = StrOf(req[h].id)]]
  /\ UNCHANGED <<store, natural, now, ticks, nextId, nCreates, nUpdates, upd>>


(***************************************************************************)
(* MongoOperations.update_complaint (PUT /complaints/{id}): the body is    *)
(* any dict and is applied with $set.                                      *)
(***************************************************************************)
UpdatePayloads ==
  { [status |-> "resolved"],
    [relatedComplaints |-> <<>>],
    [processingHistory |-> <<>>],
    [isDuplicate |-> TRUE] }

\* lines 264-272: the updated entry lists the keys update_data has by then
WithUpdatedEntry(data, t) ==
  Merge(data,
    [processingHistory |->
       Append(data.processingHistory, UpdatedEntry(t, DOMAIN data))])

\* lines 255-259 and, when the body brings its own history, 264-272
UpdateBegin(id, payload) ==
  /\ upd.pc \in {"idle", "done", "raised"}
  /\ nUpdates < MaxUpdates
  /\ nUpdates' = nUpdates + 1
  /\ IF ~ObjectIdIsValid(id)
       THEN upd' = [IdleUpd EXCEPT !.pc = "done", !.id = id, !.result = FALSE]
       ELSE LET data == Merge(payload, [lastUpdated |-> now])
            IN IF "processingHistory" \in DOMAIN payload
                 THEN upd' = [IdleUpd EXCEPT !.pc = "write", !.id = id,
                                             !.data = WithUpdatedEntry(data, now)]
                 ELSE upd' = [IdleUpd EXCEPT !.pc = "read", !.id = id, !.data = data]
  /\ UNCHANGED <<store, natural, now, ticks, faults, nextId, nCreates, req>>

\* get_complaint_by_id returns: the current history is copied into the update
UpdateRead ==
  /\ upd.pc = "read"
  /\ upd' = IF upd.id \in DOMAIN store
              THEN [upd EXCEPT !.pc = "write",
                      !.data = WithUpdatedEntry(
                                 Merge(upd.data,
                                   [processingHistory |-> store[upd.id].processingHistory]),
                                 now)]
              ELSE [upd EXCEPT !.pc = "write"]
  /\ UNCHANGED <<store, natural, now, ticks, faults, nextId, nCreates, nUpdates, req>>

\* get_complaint_by_id or update_one raises
UpdateFails ==
  /\ upd.pc \in {"read", "write"}
  /\ faults < MaxFaults
  /\ faults' = faults + 1
  /\ upd' = [upd EXCEPT !.pc = "raised"]
  /\ UNCHANGED <<store, natural, now, ticks, nextId, nCreates, nUpdates, req>>

\* update_one({"_id": id}, {"$set": update_data})
UpdateWrite ==
  /\ upd.pc = "write"
  /\ IF upd.id \in DOMAIN store
       THEN /\ store' = [store EXCEPT ![upd.id] = Merge(store[upd.id], upd.data)]
            /\ upd' = [upd EXCEPT !.pc = "done", !.result = TRUE]
       ELSE /\ store' = store
            /\ upd' = [upd EXCEPT !.pc = "done", !.result = FALSE]
  /\ UNCHANGED <<natural, now, ticks, faults, nextId, nCreates, nUpdates, req>>

(***************************************************************************)
(* MongoOperations.get_duplicate_stats (GET /stats/duplicates): one        *)
(* aggregate over the collection, read at one instant.                     *)
(***************************************************************************)
TopCustomersLimit == 10

\* the key $group reads from a record: the field, null when it is missing
FieldOrNull(r, f) == IF f \in DOMAIN r THEN r[f] ELSE None

\* {"$count": "count"}: one document, none for an empty input
CountStage(st) ==
  IF DOMAIN st = {} THEN <<>> ELSE <<[count |-> Cardinality(DOMAIN st)]>>

\* {"$group": {"_id": "$isDuplicate", "count": {"$sum": 1}}}
GroupByIsDuplicate(st) ==
  {[_id |-> k,
    count |-> Cardinality({i \in DOMAIN st : FieldOrNull(st[i], "isDuplicate") = k})] :
     k \in {FieldOrNull(st[i], "isDuplicate") : i \in DOMAIN st}}

\* $match isDuplicate true, then $group by customerEmail with $sum 1
GroupByCustomer(st) ==
  LET dups == {i \in DOMAIN st : FieldOrNull(st[i], "isDuplicate") = TRUE}
  IN {[_id |-> e,
       duplicate_count |-> Cardinality({i \in dups : st[i].customerEmail = e})] :
        e \in {st[i].customerEmail : i \in dups}}

\* {"$sort": {"duplicate_count": -1}}: every order of G with the counts
\* descending; the order among equal counts is up to the store
RECURSIVE SortedByCount(_)
SortedByCount(G) ==
  IF G = {} THEN {<<>>}
  ELSE UNION {{<<g>> \o t : t \in SortedByCount(G \ {g})} :
                g \in {x \in G : \A y \in G : y.duplicate_count <= x.duplicate_count}}

\* the facet without its $limit stage
LimitTop_Unbounded(s) == s

\* {"$limit": 10}
LimitTop(s) == IF Len(s) > TopCustomersLimit THEN SubSeq(s, 1, TopCustomersLimit) ELSE s

\* the $facet results the aggregate can return
Facets(st) ==
  {[total_complaints |-> CountStage(st),
    duplicate_stats |-> GroupByIsDuplicate(st),
    duplicates_by_customer |-> LimitTop(s)] : s \in SortedByCount(GroupByCustomer(st))}

\* duplicate_breakdown.get(key, 0)
BreakdownGet(groups, key) ==
  IF \E g \in groups : g._id = key
    THEN (CHOOSE g \in groups : g._id = key).count
    ELSE 0

\* the rate with the digits after the second decimal cut off
RoundPercent_Truncates(num, den) == (num * 10000) \div den

\* round(num / den * 100, 2) as a whole number of hundredths of a percent:
\* the nearest one, the even one of two equally near (under 32 records
\* num / den * 100 is never half-way between two hundredths, and the error
\* of the float division is far smaller than its distance from half-way)
RoundPercent(num, den) ==
  LET q == (num * 10000) \div den
      r == (num * 10000) % den
  IN IF 2 * r > den THEN q + 1
     ELSE IF 2 * r < den THEN q
     ELSE IF q % 2 = 0 THEN q ELSE q + 1

\* lines 171-192: the response built from one $facet result
StatsOf(stats) ==
  LET total == IF stats.total_complaints # <<>>
                 THEN stats.total_complaints[1].count ELSE 0
  IN [total_complaints |-> total,
      duplicates |-> BreakdownGet(stats.duplicate_stats, TRUE),
      unique_complaints |-> BreakdownGet(stats.duplicate_stats, FALSE),
      duplicate_rate |-> IF total > 0
                           THEN RoundPercent(BreakdownGet(stats.duplicate_stats, TRUE), total)
                           ELSE 0,
      top_duplicate_customers |-> stats.duplicates_by_customer]

\* the responses get_duplicate_stats can give on store st
GetDuplicateStats(st) == {StatsOf(stats) : stats \in Facets(st)}

(***************************************************************************)
(* Specifications.                                                         *)
(***************************************************************************)
\* check_duplicate of handler h
Resolve(h) ==
  \/ ExactLookupFails(h)
  \/ ExactLookupFinds(h)
  \/ ExactLookupMisses(h)
  \/ SimilarQueryFails(h)
  \/ SimilarCheck(h)

\* the writes of create_complaint of handler h
Persist(h) ==
  \/ InsertFails(h)
  \/ Insert(h)
  \/ Link(h)
  \/ LinkFails(h)

CreateStep ==
  \/ \E h \in CreateHandlers : \E c \in Complaints : CreateBegin(h, c, MaxCreates)
  \/ \E h \in CreateHandlers : Resolve(h)
  \/ \E h \in CreateHandlers : Persist(h)

UpdateStepWith(payloads) ==
  \/ \E id \in (DOMAIN store) \cup {AbsentId, InvalidId} :
       \E payload \in payloads : UpdateBegin(id, payload)
  \/ UpdateRead
  \/ UpdateFails
  \/ UpdateWrite

UpdateStep == UpdateStepWith(UpdatePayloads)

ClockStep == \E d \in TickSteps : Tick(d)

\* the whole service
Next == CreateStep \/ UpdateStep \/ ClockStep

Spec == Init /\ [][Next]_vars

\* the service when PUT only ever carries a new status
NextStatus == CreateStep \/ UpdateStepWith({[status |-> "resolved"]}) \/ ClockStep

SpecStatus == Init /\ [][NextStatus]_vars

\* PUT bodies that name the hashed fields or the hash itself
EditPayloads ==
  { [subject |-> <<"z">>],
    [description |-> <<"z">>],
    [contentHash |-> Md5Hex(<<"z">>)] }

\* create_complaint requests one after the other, and updates of what they stored
NextEdit ==
  \/ \E c \in Complaints : CreateBegin("h1", c, MaxCreates)
  \/ Resolve("h1")
  \/ Persist("h1")
  \/ UpdateStepWith(EditPayloads)

SpecEdit == Init /\ [][NextEdit]_vars

\* create_complaint requests only, concurrent
NextCreate == CreateStep \/ ClockStep

SpecCreate == Init /\ [][NextCreate]_vars

\* create_complaint requests only, concurrent, all within one day
SpecPair == Init /\ [][CreateStep]_vars

\* create_complaint requests only, one after the other, one more of them
SerialCreates == MaxCreates + 1

NextSerial ==
  \/ \E c \in Complaints : CreateBegin("h1", c, SerialCreates)
  \/ Resolve("h1")
  \/ Persist("h1")
  \/ ClockStep

SpecSerial == Init /\ [][NextSerial]_vars

\* create_complaint requests one after the other, of complaints that bring a
\* status and a history of their own
NextSubmit ==
  \/ \E c \in SubmittedComplaints : CreateBegin("h1", c, MaxCreates)
  \/ Resolve("h1")
  \/ Persist("h1")
  \/ Tick(Window)

SpecSubmit == Init /\ [][NextSubmit]_vars


(***************************************************************************)
(* The resolver alone, against a store that earlier requests have filled:  *)
(* up to MaxPreload mutually unlike complaints of one customer and         *)
(* category, one per time unit back from now, and up to two more records   *)
(* (and a duplicate of the first of them) at the edges of the window.      *)
(***************************************************************************)
FillerLetters == <<"e","f","g","j","k","l","m","n","o","p","r","s","t","u">>

FillerAt(i) ==
  Submission(EmailLower, <<FillerLetters[i], FillerLetters[i]>>, <<"q">>, "billing")

NowQuery == Window + 2

\* ages of the extra records: just created, on the edge of the window, past it
EdgeAges == {0, Window, Window + 1}

\* the record create_complaint stored for complaint c at time t with verdict orig
StoredRecord(c, t, orig) == WithVerdict(ComplaintToDict(c, t), orig, t)

\* a request for c2 made when c1 of age gap was stored had to find c1
WouldMatch(c1, c2, gap) ==
  /\ gap <= Window
  /\ c1.customerEmail = c2.customerEmail
  /\ \/ GenerateContentHash(c1) = GenerateContentHash(c2)
     \/ /\ c1.category = c2.category
        /\ ClearsThreshold(CalculateTextSimilarity(c2, c1))

Extras ==
  LET one == {<<[c |-> c, age |-> a]>> : c \in QueryComplaints, a \in EdgeAges}
      two == {x \o y : x \in one, y \in one}
  IN {<<>>} \cup one
     \cup {e \in two : /\ e[1].age >= e[2].age
                       /\ ~WouldMatch(e[1].c, e[2].c, e[1].age - e[2].age)}

PreloadedStore(n, extras, withDup) ==
  LET m == Len(extras)
      base == [i \in 1..(n + m) |->
                 IF i <= n
                   THEN StoredRecord(FillerAt(i), NowQuery - (i - 1), None)
                   ELSE StoredRecord(extras[i - n].c, NowQuery - extras[i - n].age, None)]
  IN IF withDup /\ m > 0
       THEN LET o == n + 1
                d == n + m + 1
                t == base[o].createdDate
            IN [i \in 1..d |->
                  IF i = d THEN StoredRecord(extras[1].c, t, StrOf(o))
                  ELSE IF i = o THEN LinkUpdate(base[o], StrOf(d), t)
                  ELSE base[i]]
       ELSE base

\* no other record of the customer, or enough to fill the candidate list
PreloadSizes == {0} \cup ((CandidateLimit - 1)..MaxPreload)

InitQuery ==
  /\ \E n \in PreloadSizes : \E extras \in Extras : \E withDup \in BOOLEAN :
       /\ withDup => Len(extras) > 0
       /\ store = PreloadedStore(n, extras, withDup)
       /\ nextId = n + Len(extras) + (IF withDup THEN 1 ELSE 0) + 1
       /\ natural = [i \in 1..(nextId - 1) |-> i]
  /\ now = NowQuery
  /\ ticks = 0
  /\ faults = 0
  /\ nCreates = 0
  /\ nUpdates = 0
  /\ req = [h \in CreateHandlers |-> IdleReq]
  /\ upd = IdleUpd

NextQuery ==
  \/ \E c \in QueryComplaints : CreateBegin("h1", c, 1)
  \/ Resolve("h1")

SpecQuery == InitQuery /\ [][NextQuery]_vars

\* one original is stored; create_complaint requests, concurrent
InitLinked ==
  /\ \E c \in Complaints : store = <<StoredRecord(c, 0, None)>>
  /\ natural = <<1>>
  /\ now = 0
  /\ ticks = 0
  /\ faults = 0
  /\ nextId = 2
  /\ nCreates = 0
  /\ nUpdates = 0
  /\ req = [h \in CreateHandlers |-> IdleReq]
  /\ upd = IdleUpd

SpecLinked == InitLinked /\ [][CreateStep]_vars

(***************************************************************************)
(* Texts for the normalizer, the scorer and the hash: courtesy words,      *)
(* other words, capitals, punctuation and white space.                     *)
(***************************************************************************)
TextWords ==
  { <<"H","i">>,
    <<"T","h","a","n","k">>,
    <<"y","o","u">>,
    <<"t","h","a","n","k","s">>,
    <<"p","l","e","a","s","e">>,
    <<"r","e","g","a","r","d","s">>,
    <<"d","e","a","r">>,
    <<"h","e","l","l","o">>,
    <<"h","i","s">>,
    <<"a","b">>,
    <<"b","a","c","b">> }

\* what stands between two words; the underscore joins them into one
Separators == { <<" ">>, <<",", " ">>, <<"_">> }

\* no text, one word, one word in white space, two words
Texts ==
  {<<>>} \cup TextWords
  \cup {<<" ", "\t">> \o w \o <<" ", " ">> : w \in TextWords}
  \cup {w1 \o s \o w2 : w1 \in TextWords, s \in Separators, w2 \in TextWords}

\* two complaints that differ by courtesy phrases (the dash of the first is
\* written "-": like it, no word character, no white space, not in the second)
CourtesyFirst ==
  <<"H","i",","," ","p","l","e","a","s","e"," ","h","e","l","p"," ","-"," ","i","t","e","m"," ","b","r","o","k","e","n">>
CourtesySecond ==
  <<"I","t","e","m"," ","b","r","o","k","e","n",","," ","t","h","a","n","k","s">>

\* spellings of one address and of one subject
EmailSpellings == {EmailLower, EmailUpper, <<" ">> \o EmailLower \o <<" ">>}
SubjectSpellings == {<<"a","b">>, <<"A","b">>, <<" ">> \o <<"a","B">> \o <<"\t">>}

RespelledComplaints ==
  {Submission(e, s, <<"c">>, "billing") : e \in EmailSpellings, s \in SubjectSpellings}

\* the complaints already stored
StoredTextComplaints ==
  {Submission(EmailLower, <<>>, t, "billing") : t \in TextWords \cup {<<>>, CourtesyFirst}}
  \cup RespelledComplaints

\* the complaints submitted
TextComplaints ==
  {Submission(EmailLower, <<>>, t, "billing") : t \in Texts \cup {CourtesySecond}}
  \cup RespelledComplaints

\* one complaint is stored and one request is resolved against it
InitText ==
  /\ \E c \in StoredTextComplaints : store = <<StoredRecord(c, 0, None)>>
  /\ natural = <<1>>
  /\ now = 0
  /\ ticks = 0
  /\ faults = 0
  /\ nextId = 2
  /\ nCreates = 0
  /\ nUpdates = 0
  /\ req = [h \in CreateHandlers |-> IdleReq]
  /\ upd = IdleUpd

NextText ==
  \/ \E c \in TextComplaints : CreateBegin("h1", c, 1)
  \/ Resolve("h1")

SpecText == InitText /\ [][NextText]_vars

(***************************************************************************)
(* Stores for get_duplicate_stats: customers with an original each and     *)
(* duplicates of it, as create_complaint and the link update leave them,   *)
(* one customer more than the top list holds.                              *)
(***************************************************************************)
CustomerEmail(k) == <<LowerLetters[k], "@", "x">>

CustomerComplaint(k) == Submission(CustomerEmail(k), <<"a","b">>, <<"c">>, "billing")

\* customer k repeated the complaint this many times: 1, 1, 2, 2, 3, ..
RepeatsOf(k) == (k + 1) \div 2

\* store st after d more duplicates of complaint c were resolved against
\* record o, inserted and linked
RECURSIVE WithDuplicates(_, _, _, _)
WithDuplicates(st, o, c, d) ==
  IF d = 0 THEN st
  ELSE Only({WithDuplicates(
               Append([st EXCEPT ![o] = LinkUpdate(st[o], StrOf(id), 0)],
                      StoredRecord(c, 0, StrOf(o))),
               o, c, d - 1) : id \in {Len(st) + 1}})

\* the store after customers 1..n sent their complaints
RECURSIVE StoreOfCustomers(_)
StoreOfCustomers(n) ==
  IF n = 0 THEN <<>>
  ELSE Only({WithDuplicates(Append(st, StoredRecord(CustomerComplaint(n), 0, None)),
                            Len(st) + 1, CustomerComplaint(n), RepeatsOf(n)) :
               st \in {StoreOfCustomers(n - 1)}})

\* no customer, two, three, and one more than the top list holds
CustomerCounts == {0, 2, 3, TopCustomersLimit + 1}

InitStats ==
  /\ \E n \in CustomerCounts : store = StoreOfCustomers(n)
  /\ natural = [i \in 1..Len(store) |-> i]
  /\ now = 0
  /\ ticks = 0
  /\ faults = 0
  /\ nextId = Len(store) + 1
  /\ nCreates = 0
  /\ nUpdates = 0
  /\ req = [h \in CreateHandlers |-> IdleReq]
  /\ upd = IdleUpd

\* the first three customers write again
NextStats ==
  \/ \E k \in 1..3 : CreateBegin("h1", CustomerComplaint(k), MaxCreates)
  \/ Resolve("h1")
  \/ Persist("h1")

SpecStats == InitStats /\ [][NextStats]_vars


(***************************************************************************)
(* Properties.                                                             *)
(***************************************************************************)
Records == DOMAIN store

Elems(s) == {s[n] : n \in 1..Len(s)}

IsPrefix(s, t) == Len(s) <= Len(t) /\ SubSeq(t, 1, Len(s)) = s

Finished(h) == req[h].pc = "done"

\* C1: every record flagged isDuplicate has an originalComplaintId that names
\* a stored record which is not itself flagged, so no record is a duplicate
\* of a duplicate (checked on create_complaint requests alone).
C1_NoDuplicateChains ==
  \A i \in Records :
    store[i].isDuplicate = TRUE =>
      /\ store[i].originalComplaintId # None
      /\ ObjectId(store[i].originalComplaintId) \in Records
      /\ store[ObjectId(store[i].originalComplaintId)].isDuplicate = FALSE

\* C2: every id in a record's relatedComplaints is a record whose
\* originalComplaintId is that record, no id is there twice, and no step of
\* create_complaint, of the link or of update_complaint takes an id out.
RelatedPointBack(st) ==
  \A o \in DOMAIN st :
    LET rel == st[o].relatedComplaints
    IN /\ \A n \in 1..Len(rel) :
            /\ rel[n] \in DOMAIN st
            /\ st[rel[n]].originalComplaintId = StrOf(o)
       /\ \A m, n \in 1..Len(rel) : m # n => rel[m] # rel[n]

RelatedKept ==
  \A o \in Records :
    Elems(store[o].relatedComplaints) \subseteq Elems(store'[o].relatedComplaints)

C2_RelatedComplaints == [][RelatedPointBack(store') /\ RelatedKept]_vars

\* C3: over any step of any handler the processingHistory of every record
\* keeps its entries, in order: the old history is a prefix of the new one.
C3_HistoryAppendOnly ==
  [][\A i \in Records :
       IsPrefix(store[i].processingHistory, store'[i].processingHistory)]_vars


\* the score of stored record i against the complaint of handler h
Score(h, i) == CalculateTextSimilarity(req[h].doc, store[i])

\* score against the configured threshold 0.85, as fractions
AtThreshold(sim) == sim[1] * ThresholdDen = ThresholdNum * sim[2]
BelowThreshold(sim) == sim[1] * ThresholdDen < ThresholdNum * sim[2]
Higher(sim1, sim2) == sim1[1] * sim2[2] > sim2[1] * sim1[2]

\* the records the exact lookup of handler h matches in the current store
ExactNow(h) ==
  {i \in Records :
     /\ store[i].customerEmail = req[h].doc.customerEmail
     /\ store[i].contentHash = req[h].doc.contentHash
     /\ store[i].createdDate >= req[h].cutoff}

\* C4: when the exact lookup of a request runs on a store that holds a record
\* of the same customerEmail and contentHash inside the window, the request
\* leaves check_duplicate in that step, with the id of such a record when the
\* lookup answers, and the candidate query and the scoring never run for it.
C4_ExactStep(h) ==
  (req[h].pc = "exact" /\ req'[h].pc # "exact" /\ ExactNow(h) # {}) =>
     /\ req'[h].pc = "insert"
     /\ ~req'[h].checkFailed =>
          /\ req'[h].exactFound
          /\ req'[h].orig \in {StrOf(m) : m \in ExactNow(h)}

C4_NoScoring(h) ==
  req'[h].exactFound =>
     /\ ~req'[h].queried
     /\ req'[h].cands = <<>>
     /\ req'[h].scored = <<>>
     /\ req'[h].pc # "similar"

C4_ExactPrecedence ==
  [][\A h \in CreateHandlers : C4_ExactStep(h) /\ C4_NoScoring(h)]_vars

\* an exact match answered although the candidate query had records to score
C4_Witness ==
  \E h \in CreateHandlers :
    /\ req[h].exactFound
    /\ req[h].pc \in {"insert", "link", "done"}
    /\ req[h].orig # None
    /\ Eligible(store, req[h].doc, req[h].cutoff) # {}

\* C5: when candidates of the similar check clear the threshold, the id
\* returned is that of the first of them in the newest-first list, so no
\* clearing candidate is newer than it, whatever the scores.
C5_RecencyTieBreak ==
  \A h \in CreateHandlers :
    req[h].queried =>
      LET cands == req[h].cands
          clearing == {n \in 1..Len(cands) : ~BelowThreshold(Score(h, cands[n]))}
      IN clearing # {} =>
           /\ req[h].orig # None
           /\ \E n \in clearing :
                /\ req[h].orig = StrOf(cands[n])
                /\ \A m \in clearing :
                     /\ n <= m
                     /\ store[cands[m]].createdDate <= store[cands[n]].createdDate

\* the newer candidate is returned although an older one scores higher
C5_Witness ==
  \E h \in CreateHandlers :
    /\ req[h].queried
    /\ req[h].orig # None
    /\ \E i \in Elems(req[h].cands) :
         /\ store[i].createdDate < store[ObjectId(req[h].orig)].createdDate
         /\ Higher(Score(h, i), Score(h, ObjectId(req[h].orig)))

\* C6: a candidate that scores exactly the threshold is accepted when the
\* loop reaches it, and the id returned by the similar check is never that
\* of a candidate that scores below the threshold.
C6_ThresholdBoundary ==
  \A h \in CreateHandlers :
    req[h].queried =>
      LET cands == req[h].cands
      IN /\ req[h].orig # None => ~BelowThreshold(Score(h, ObjectId(req[h].orig)))
         /\ \A n \in 1..Len(cands) :
              (/\ AtThreshold(Score(h, cands[n]))
               /\ \A m \in 1..(n - 1) : BelowThreshold(Score(h, cands[m])))
              => req[h].orig = StrOf(cands[n])

\* a candidate at exactly 0.85 was returned, after one below it was passed over
C6_Witness ==
  \E h \in CreateHandlers :
    /\ req[h].queried
    /\ req[h].orig # None
    /\ AtThreshold(Score(h, ObjectId(req[h].orig)))
    /\ \E i \in Elems(req[h].scored) : BelowThreshold(Score(h, i))


\* C7: when the exact lookup or the candidate query of a request fails,
\* check_duplicate returns None and create_complaint goes on to the insert;
\* the record it then stores is not flagged, has no originalComplaintId, and
\* its id is returned.
C7_AfterFailure(h) ==
  req'[h].checkFailed =>
     /\ req'[h].orig = None
     /\ req'[h].pc \in {"insert", "done", "raised"}
     /\ req[h].pc \in {"exact", "similar"} => req'[h].pc = "insert"
     /\ req'[h].pc = "raised" => req[h].pc \in {"insert", "raised"}
     /\ req'[h].pc = "done" =>
          /\ req'[h].id \in DOMAIN store'
          /\ store'[req'[h].id].isDuplicate = FALSE
          /\ store'[req'[h].id].originalComplaintId = None
          /\ req'[h].result = StrOf(req'[h].id)

C7_FailOpenResolution == [][\A h \in CreateHandlers : C7_AfterFailure(h)]_vars

\* a complaint stored as an original although its lookup, had it answered,
\* would have found the record it repeats
C7_Witness ==
  \E h \in CreateHandlers :
    /\ req[h].checkFailed
    /\ Finished(h)
    /\ store[req[h].id].isDuplicate = FALSE
    /\ \E i \in Records \ {req[h].id} :
         /\ store[i].contentHash = store[req[h].id].contentHash
         /\ store[i].customerEmail = store[req[h].id].customerEmail

\* C8: when the update of the original fails in the link step,
\* create_complaint returns the id of the new record; that record stays
\* stored as a duplicate of the original, and the step changes no record.
C8_LinkFailureStep(h) ==
  (req[h].pc = "link" /\ req'[h].linkFailed) =>
     /\ req'[h].pc = "done"
     /\ req'[h].result = StrOf(req[h].id)
     /\ store' = store
     /\ req[h].id \in Records
     /\ store'[req[h].id].isDuplicate = TRUE
     /\ store'[req[h].id].originalComplaintId = req[h].orig

C8_LinkFailOpen == [][\A h \in CreateHandlers : C8_LinkFailureStep(h)]_vars

\* a duplicate that names an original whose relatedComplaints lacks it
C8_Witness ==
  \E h \in CreateHandlers :
    /\ req[h].linkFailed
    /\ Finished(h)
    /\ store[req[h].id].isDuplicate = TRUE
    /\ ObjectId(req[h].orig) \in Records
    /\ req[h].id \notin Elems(store[ObjectId(req[h].orig)].relatedComplaints)

\* C9: the candidate query returns at most 10 records, newest first, all of
\* the customerEmail and category of the new complaint, created at or after
\* the cutoff and not flagged as duplicates; it leaves out no record that is
\* newer than one it returns, and only records it returned are scored.
C9_CandidateQuery ==
  \A h \in CreateHandlers :
    req[h].queried =>
      LET cands == req[h].cands
          doc == req[h].doc
      IN /\ Len(cands) <= CandidateLimit
         /\ \A m, n \in 1..Len(cands) :
              /\ m < n => store[cands[m]].createdDate >= store[cands[n]].createdDate
              /\ m # n => cands[m] # cands[n]
         /\ \A n \in 1..Len(cands) :
              /\ cands[n] \in Records
              /\ store[cands[n]].customerEmail = doc.customerEmail
              /\ store[cands[n]].category = doc.category
              /\ store[cands[n]].createdDate >= req[h].cutoff
              /\ store[cands[n]].isDuplicate = FALSE
         /\ \A i \in Records \ Elems(cands) :
              (/\ store[i].customerEmail = doc.customerEmail
               /\ store[i].category = doc.category
               /\ store[i].createdDate >= req[h].cutoff
               /\ store[i].isDuplicate = FALSE)
              => /\ Len(cands) = CandidateLimit
                 /\ \A n \in 1..Len(cands) :
                      store[cands[n]].createdDate >= store[i].createdDate
         /\ Elems(req[h].scored) \subseteq Elems(cands)

\* ten candidates returned and all scored, with records left out for the
\* limit, for their age, for their flag and for their category or address
C9_Witness ==
  \E h \in CreateHandlers :
    /\ req[h].queried
    /\ Len(req[h].cands) = CandidateLimit
    /\ Len(req[h].scored) = CandidateLimit
    /\ \E i \in Records \ Elems(req[h].cands) :
         /\ store[i].customerEmail = req[h].doc.customerEmail
         /\ store[i].category = req[h].doc.category
         /\ store[i].createdDate >= req[h].cutoff
         /\ store[i].isDuplicate = FALSE
    /\ \E i \in Records : store[i].createdDate < req[h].cutoff
    /\ \E i \in Records : store[i].isDuplicate = TRUE
    /\ \E i \in Records :
         \/ store[i].customerEmail # req[h].doc.customerEmail
         \/ store[i].category # req[h].doc.category

\* C10: check_duplicate never returns a record created before the window
\* of the request, whatever its content; when every record of the customer
\* is that old, it returns no match.
C10_OutsideWindow ==
  \A h \in CreateHandlers :
    req[h].pc \in {"insert", "link", "done", "raised"} =>
      /\ req[h].orig # None =>
           store[ObjectId(req[h].orig)].createdDate >= req[h].cutoff
      /\ (\A i \in Records \ {req[h].id} :
            store[i].customerEmail = req[h].doc.customerEmail
              => store[i].createdDate < req[h].cutoff)
         => req[h].orig = None

\* a repeat of a complaint stored before the window, stored as an original
C10_Witness ==
  \E h \in CreateHandlers :
    /\ Finished(h)
    /\ ~req[h].checkFailed
    /\ req[h].orig = None
    /\ \E i \in Records \ {req[h].id} :
         /\ store[i].customerEmail = req[h].doc.customerEmail
         /\ store[i].contentHash = req[h].doc.contentHash
         /\ store[i].createdDate < req[h].cutoff
    /\ \A i \in Records \ {req[h].id} :
         store[i].createdDate < req[h].cutoff

\* the record check_duplicate of handler h has answered with, None included
Answered(h) == req[h].pc = "insert" /\ ~req[h].checkFailed

\* stored record i repeats the complaint of handler h: subject, description
\* and category identical, the address identical up to letter case, created
\* inside the window of the request
RepeatsUpToCase(h, i) ==
  /\ store[i].subject = req[h].doc.subject
  /\ store[i].description = req[h].doc.description
  /\ store[i].category = req[h].doc.category
  /\ Lower(store[i].customerEmail) = Lower(req[h].doc.customerEmail)
  /\ store[i].createdDate >= req[h].cutoff

\* C11: when a stored record inside the window has the subject, description
\* and category of the new complaint and its customerEmail up to letter case,
\* check_duplicate returns the id of a stored record of that customer.
C11_EmailCaseInsensitive ==
  \A h \in CreateHandlers :
    (Answered(h) /\ \E i \in Records : RepeatsUpToCase(h, i)) =>
      /\ req[h].orig # None
      /\ ObjectId(req[h].orig) \in Records
      /\ Lower(store[ObjectId(req[h].orig)].customerEmail)
           = Lower(req[h].doc.customerEmail)

\* stored record i is the one record of the customer of handler h inside the
\* window of the request
SingleRecord(h, i) ==
  /\ store[i].customerEmail = req[h].doc.customerEmail
  /\ store[i].createdDate >= req[h].cutoff
  /\ \A j \in Records \ {i} :
       store[j].customerEmail = req[h].doc.customerEmail
         => store[j].createdDate < req[h].cutoff

\* ratio() of the normalised texts plus 0.1, capped at 1.0
ScoreWithBonus(c1, c2) ==
  LET r == Ratio(NormalizeText(ComparisonText(c1)), NormalizeText(ComparisonText(c2)))
      b == <<BonusDen * r[1] + BonusNum * r[2], BonusDen * r[2]>>
  IN IF b[1] > b[2] THEN <<1, 1>> ELSE b

EqualUpToCase(s, t) == Lower(s) = Lower(t)

\* the case of C12: the single record of the customer, of the category of the
\* request, not flagged, its subject that of the request up to letter case,
\* the score with the bonus at or above the threshold
SimilarSingle(h, i) ==
  /\ SingleRecord(h, i)
  /\ store[i].category = req[h].doc.category
  /\ store[i].isDuplicate = FALSE
  /\ EqualUpToCase(store[i].subject, req[h].doc.subject)
  /\ ~BelowThreshold(ScoreWithBonus(req[h].doc, store[i]))

\* C12: when the single record of the customer inside the window has the
\* category of the new complaint, is not flagged, has its subject up to letter
\* case and scores, with the equal-subject bonus, at or above the threshold,
\* check_duplicate returns the id of that record.
C12_SimilarSingleRecord ==
  \A h \in CreateHandlers :
    Answered(h) =>
      \A i \in Records : SimilarSingle(h, i) => req[h].orig = StrOf(i)

\* the record is returned by the similar check for a subject typed in another
\* case, on the strength of the bonus alone
C12_Witness ==
  \E h \in CreateHandlers :
    /\ Answered(h)
    /\ req[h].queried
    /\ \E i \in Records :
         /\ SimilarSingle(h, i)
         /\ store[i].subject # req[h].doc.subject
         /\ BelowThreshold(Ratio(NormalizeText(ComparisonText(req[h].doc)),
                             NormalizeText(ComparisonText(store[i]))))
         /\ req[h].orig = StrOf(i)

NoRepeats(s) == \A m, n \in 1..Len(s) : m # n => s[m] # s[n]

\* record r with the three fields the link update writes left out
BesidesLink(r) ==
  [f \in DOMAIN r \ {"relatedComplaints", "lastUpdated", "processingHistory"} |-> r[f]]

\* handler h takes the step in which update_one on the original succeeds
LinkSucceeds(h) ==
  req[h].pc = "link" /\ req'[h].pc = "done" /\ ~req'[h].linkFailed

C13_LinkStep(h) ==
  LinkSucceeds(h) =>
    LET o == ObjectId(req[h].orig)
        d == req[h].id
        old == store[o]
        new == store'[o]
    IN /\ o \in Records
       /\ IsPrefix(old.relatedComplaints, new.relatedComplaints)
       /\ new.relatedComplaints =
            IF d \in Elems(old.relatedComplaints)
              THEN old.relatedComplaints
              ELSE Append(old.relatedComplaints, d)
       /\ NoRepeats(old.relatedComplaints) => NoRepeats(new.relatedComplaints)
       /\ new.lastUpdated = now
       /\ Len(new.processingHistory) = Len(old.processingHistory) + 1
       /\ IsPrefix(old.processingHistory, new.processingHistory)
       /\ new.processingHistory[Len(new.processingHistory)].action = "duplicate_linked"
       /\ new.processingHistory[Len(new.processingHistory)].details
            = [duplicateComplaintId |-> StrOf(d)]
       /\ BesidesLink(new) = BesidesLink(old)
       /\ \A i \in Records \ {o} : store'[i] = store[i]

\* C13: the link update keeps the entries the original's relatedComplaints
\* already has, in place and without repeats, adds the id of the new record
\* unless it is there, sets lastUpdated to the time of the update, appends one
\* duplicate_linked entry naming the new record to the original's history,
\* and writes nothing else.
C13_LinkFrame == [][\A h \in CreateHandlers : C13_LinkStep(h)]_vars

\* a duplicate linked to an original that already had related records
C13_Witness ==
  \E h \in CreateHandlers :
    /\ Finished(h)
    /\ req[h].orig # None
    /\ ~req[h].linkFailed
    /\ LET rel == store[ObjectId(req[h].orig)].relatedComplaints
       IN /\ Len(rel) >= 2
          /\ rel[Len(rel)] = req[h].id
          /\ store[ObjectId(req[h].orig)].lastUpdated > store[rel[1]].createdDate

\* check_duplicate of handler h returns in this step
VerdictStep(h) == req[h].pc \in {"exact", "similar"} /\ req'[h].pc = "insert"

\* insert_one of handler h succeeds in this step
InsertStep(h) == req[h].pc = "insert" /\ req'[h].pc \in {"link", "done"}

\* record r with the four fields the verdict writes left out
BesidesVerdict(r) ==
  [f \in DOMAIN r \ {"isDuplicate", "originalComplaintId", "status",
                     "processingHistory"} |-> r[f]]

LastOf(s) == s[Len(s)]

C14_Step(h) ==
  /\ (VerdictStep(h) /\ req'[h].orig # None) =>
       LET submitted == req[h].doc
           doc == req'[h].doc
           X == req'[h].orig
       IN /\ doc.isDuplicate = TRUE
          /\ doc.originalComplaintId = X
          /\ doc.status = "duplicate"
          /\ doc.contentHash = GenerateContentHash(submitted)
          /\ Len(doc.processingHistory) = Len(submitted.processingHistory) + 1
          /\ IsPrefix(submitted.processingHistory, doc.processingHistory)
          /\ LastOf(doc.processingHistory).action = "created"
          /\ LastOf(doc.processingHistory).details.isDuplicate = TRUE
          /\ LastOf(doc.processingHistory).details.originalComplaintId = X
          /\ BesidesVerdict(doc) = BesidesVerdict(submitted)
  /\ (InsertStep(h) /\ req[h].orig # None) =>
       /\ req[h].id \notin Records
       /\ store'[req[h].id] = req[h].doc
       /\ \A i \in Records : store'[i] = store[i]

\* C14: when check_duplicate returns an original X, the document gets
\* isDuplicate = TRUE, originalComplaintId = X, status "duplicate" in place of
\* the submitted status, the content hash of the submitted complaint and one
\* created entry, carrying isDuplicate = TRUE and X, after the submitted
\* history; insert_one stores that document as it is.
C14_DuplicateRecord == [][\A h \in CreateHandlers : C14_Step(h)]_vars

\* a complaint sent with a history of its own, stored as a duplicate
C14_Witness ==
  \E h \in CreateHandlers :
    /\ Finished(h)
    /\ req[h].orig # None
    /\ store[req[h].id].status = "duplicate"
    /\ store[req[h].id].processingHistory[1] = AnalysisEntry
    /\ Len(store[req[h].id].processingHistory) = 2

C15_Step(h) ==
  /\ (VerdictStep(h) /\ req'[h].orig = None) =>
       LET submitted == req[h].doc
           doc == req'[h].doc
       IN /\ doc.isDuplicate = FALSE
          /\ doc.originalComplaintId = None
          /\ doc.status = submitted.status
          /\ Len(doc.processingHistory) = Len(submitted.processingHistory) + 1
          /\ IsPrefix(submitted.processingHistory, doc.processingHistory)
          /\ LastOf(doc.processingHistory).action = "created"
          /\ LastOf(doc.processingHistory).details.isDuplicate = FALSE
          /\ "originalComplaintId" \notin DOMAIN LastOf(doc.processingHistory).details
          /\ BesidesVerdict(doc) = BesidesVerdict(submitted)
  /\ (InsertStep(h) /\ req[h].orig = None) =>
       /\ req[h].id \notin Records
       /\ store'[req[h].id] = req[h].doc
       /\ \A i \in Records : store'[i] = store[i]
       /\ req'[h].pc = "done"

\* C15: when check_duplicate returns no original, the document gets
\* isDuplicate = FALSE and originalComplaintId = None, keeps the submitted
\* status, gets one created entry with isDuplicate = FALSE and no
\* originalComplaintId after the submitted history; insert_one stores it,
\* changes no other record, and the request ends without a link update.
C15_OriginalRecord == [][\A h \in CreateHandlers : C15_Step(h)]_vars

\* a complaint sent as resolved with a history of its own, stored as an
\* original next to an older record, no lookup having failed
C15_Witness ==
  \E h \in CreateHandlers :
    /\ Finished(h)
    /\ faults = 0
    /\ req[h].orig = None
    /\ Cardinality(Records) = 2
    /\ store[req[h].id].status = "resolved"
    /\ store[req[h].id].processingHistory[1] = AnalysisEntry
    /\ Len(store[req[h].id].processingHistory) = 2

\* C16: the contentHash of a stored record never changes, whatever
\* update_complaint payloads and duplicate-link updates are applied to it.
C16_ContentHashFixed ==
  [][\A i \in Records : store'[i].contentHash = store[i].contentHash]_vars

\* the fields that hold the verdict and the links of record r
DedupState(r) == <<r.isDuplicate, r.originalComplaintId, r.relatedComplaints>>

\* C17: the isDuplicate, originalComplaintId and relatedComplaints of a stored
\* record change only in the link update of a create_complaint that names the
\* record as its original; no step of update_complaint changes them, whatever
\* the payload.
C17_DedupStateFrame ==
  [][\A i \in Records :
       DedupState(store'[i]) # DedupState(store[i]) =>
         \E h \in CreateHandlers :
           LinkSucceeds(h) /\ ObjectId(req[h].orig) = i]_vars

\* update_one of update_complaint is applied to a stored record in this step
UpdateApplied == upd.pc = "write" /\ upd'.pc = "done" /\ upd.id \in Records

\* the fields of the request body, which carries no processingHistory:
\* update_data without the two keys update_complaint adds
CallerFields == (DOMAIN upd.data) \ {"lastUpdated", "processingHistory"}

\* C18: an update_complaint whose body has no processingHistory leaves the
\* record's history equal to the history it had followed by one updated
\* entry, whose fields_updated are the fields of the body, and sets
\* lastUpdated to the time of the call.
C18_UpdatedEntry ==
  [][UpdateApplied =>
       LET old == store[upd.id]
           new == store'[upd.id]
       IN /\ Len(new.processingHistory) = Len(old.processingHistory) + 1
          /\ IsPrefix(old.processingHistory, new.processingHistory)
          /\ LastOf(new.processingHistory).action = "updated"
          /\ LastOf(new.processingHistory).details.fields_updated = CallerFields
          /\ new.lastUpdated = upd.data.lastUpdated
          /\ new.lastUpdated >= old.lastUpdated]_vars

\* the positions of relatedComplaints of record o that hold id
RelatedAt(o, id) ==
  {n \in 1..Len(store[o].relatedComplaints) : store[o].relatedComplaints[n] = id}

\* the duplicate_linked entries in the history of record o
LinkedEntries(o) ==
  {n \in 1..Len(store[o].processingHistory) :
     store[o].processingHistory[n].action = "duplicate_linked"}

\* those that name id
LinkedEntriesOf(o, id) ==
  {n \in LinkedEntries(o) :
     store[o].processingHistory[n].details.duplicateComplaintId = StrOf(id)}

\* the two handlers have completed requests that resolved against record o,
\* the link update of neither having failed
BothLinkedTo(o) ==
  \A h \in CreateHandlers :
    /\ Finished(h)
    /\ req[h].orig = StrOf(o)
    /\ ~req[h].linkFailed

\* C19: once two concurrent create_complaint requests that resolved against
\* the same stored original O have completed (no update_one having raised),
\* O.relatedComplaints holds each of the two new ids once and O's history
\* holds one duplicate_linked entry for each; with no other request made
\* these are the only two.
C19_ConcurrentLinks ==
  \A o \in Records :
    BothLinkedTo(o) =>
      /\ \A h \in CreateHandlers :
           /\ Cardinality(RelatedAt(o, req[h].id)) = 1
           /\ Cardinality(LinkedEntriesOf(o, req[h].id)) = 1
      /\ nCreates = 2 =>
           /\ Len(store[o].relatedComplaints) = 2
           /\ Cardinality(LinkedEntries(o)) = 2

\* two requests answered against the stored original, both links made
C19_Witness ==
  /\ BothLinkedTo(1)
  /\ req["h1"].id # req["h2"].id
  /\ Len(store[1].relatedComplaints) = 2

\* record i is stored as a duplicate of record j
DuplicateOf(i, j) ==
  store[i].isDuplicate /\ store[i].originalComplaintId = StrOf(j)

\* record i is stored as an original
Original(i) == ~store[i].isDuplicate /\ store[i].originalComplaintId = None

\* complaints of one customer and category, each clearing the threshold
\* against the other, with different content hashes
MutuallySimilar(c1, c2) ==
  /\ c1.customerEmail = c2.customerEmail
  /\ c1.category = c2.category
  /\ c1.contentHash # c2.contentHash
  /\ ClearsThreshold(CalculateTextSimilarity(c1, c2))
  /\ ClearsThreshold(CalculateTextSimilarity(c2, c1))

\* two requests have been made, the second (id 2) by the handler that served
\* the first once that one was over and stored, inside the window, and its
\* check_duplicate returned without an error
SecondAfterFirst ==
  /\ nextId = 3
  /\ req["h1"].id = 2
  /\ Records = {1, 2}
  /\ ~req["h1"].checkFailed
  /\ store[1].createdDate >= req["h1"].cutoff
  /\ MutuallySimilar(store[1], store[2])

\* two requests have been made and both check_duplicate calls have returned
\* with neither insert_one done
BothCheckedFirst ==
  /\ nextId = 3
  /\ Records = {}
  /\ \A h \in CreateHandlers : req[h].pc = "insert"

\* the record handler h inserted carries the verdict the handler reached
StoredAsResolved(h) ==
  (req[h].pc \in {"link", "done"} /\ req[h].id \in Records) =>
    /\ store[req[h].id].isDuplicate = req[h].doc.isDuplicate
    /\ store[req[h].id].originalComplaintId = req[h].doc.originalComplaintId

\* C20: of two create_complaint requests for mutually similar complaints of
\* one customer and category, made into an empty store: when the second starts
\* after the first is over, the second is stored as a duplicate of the first;
\* when both check_duplicate calls return before either insert_one, both are
\* stored as originals; and whatever the interleaving, the two records are
\* either both originals or one original and one duplicate of it, never
\* duplicates of each other.
C20_TwoNovelRequests ==
  /\ SecondAfterFirst => (DuplicateOf(2, 1) /\ Original(1))
  /\ BothCheckedFirst =>
       \A h \in CreateHandlers :
         ~req[h].doc.isDuplicate /\ req[h].doc.originalComplaintId = None
  /\ \A h \in CreateHandlers : StoredAsResolved(h)
  /\ \A i, j \in Records : ~(DuplicateOf(i, j) /\ DuplicateOf(j, i))
  /\ (nextId = 3 /\ Records = {1, 2}) =>
       \/ Original(1) /\ Original(2)
       \/ Original(1) /\ DuplicateOf(2, 1)
       \/ Original(2) /\ DuplicateOf(1, 2)

\* two overlapping requests for similar complaints, both stored as originals
\* with no lookup having failed and no time gone by
C20_Witness ==
  /\ req["h2"].id = 2
  /\ faults = 0
  /\ ticks = 0
  /\ \A h \in CreateHandlers : Finished(h)
  /\ Records = {1, 2}
  /\ MutuallySimilar(store[1], store[2])
  /\ Original(1) /\ Original(2)

\* handler h takes a step up to and including the return of check_duplicate
CheckPhaseStep(h) ==
  /\ req'[h] # req[h]
  /\ req[h].pc \in {"idle", "done", "raised", "exact", "similar"}

\* C21: no step of a create_complaint request up to and including the return
\* of check_duplicate writes to the store, and while the request is in that
\* phase, or has its verdict and has not inserted yet, no record with its id
\* is stored.
C21_ResolveReadOnly ==
  [][\A h \in CreateHandlers :
       /\ CheckPhaseStep(h) => (store' = store /\ natural' = natural)
       /\ req'[h].pc \in {"exact", "similar", "insert"} =>
            req'[h].id \notin DOMAIN store']_vars

\* a request between its two lookups, the point where an aborted request
\* stops: the store holds the record that was there before, as it was
C21_Witness ==
  /\ req["h1"].id = 2
  /\ req["h1"].pc = "similar"
  /\ Records = {1}
  /\ Len(store[1].processingHistory) = 1
  /\ store[1].relatedComplaints = <<>>

\* the records flagged as duplicates
Flagged == {i \in Records : store[i].isDuplicate = TRUE}

\* C22: on the empty store get_duplicate_stats answers total_complaints 0
\* and duplicate_rate 0 (a response with these fields, not the error
\* response); on a store of N > 0 records, D of them flagged, it answers
\* total_complaints N, duplicates D and as duplicate_rate the hundredth of a
\* percent nearest to D / N * 100.
C22_DuplicateRate ==
  \A s \in GetDuplicateStats(store) :
    LET N == Cardinality(Records)
        D == Cardinality(Flagged)
    IN /\ "error" \notin DOMAIN s
       /\ s.total_complaints = N
       /\ s.duplicates = D
       /\ N = 0 => s.duplicate_rate = 0
       /\ N > 0 =>
            /\ 2 * (s.duplicate_rate * N - D * 10000) <= N
            /\ 2 * (D * 10000 - s.duplicate_rate * N) <= N

\* three records, two of them duplicates: 66.666... is reported as 66.67
C22_Witness ==
  /\ Cardinality(Records) = 3
  /\ Cardinality(Flagged) = 2
  /\ \E s \in GetDuplicateStats(store) : s.duplicate_rate = 6667

\* the texts create_complaint has normalized for the request of handler h:
\* the description for the hash, subject and description for the scorer
NormalizedFor(h) ==
  IF req[h].doc = NoDoc THEN {}
  ELSE {req[h].doc.description, ComparisonText(req[h].doc)}

\* the same for stored record i
NormalizedOf(i) == {store[i].description, ComparisonText(store[i])}

Idempotent(t) ==
  Only({NormalizeText(n) = n : n \in {NormalizeText(t)}})

\* C23: normalizing a normalized text returns it unchanged, for every text
\* the requests and the stored records bring: courtesy words, other words,
\* capitals, commas, underscores, blanks and tabs.
C23_NormalizeIdempotent ==
  /\ \A h \in CreateHandlers : \A t \in NormalizedFor(h) : Idempotent(t)
  /\ \A i \in Records : \A t \in NormalizedOf(i) : Idempotent(t)

\* a scored request whose description lost a courtesy word and kept the rest
C23_Witness ==
  /\ req["h1"].queried
  /\ req["h1"].doc.description =
       <<"p","l","e","a","s","e",","," ","h","i","s">>
  /\ NormalizeText(req["h1"].doc.description) = <<",", " ", "h","i","s">>

\* w stands in t as a whole word
HasWholeWord(t, w) ==
  \E i \in 1..Len(t) :
    /\ i + Len(w) - 1 <= Len(t)
    /\ SubSeq(t, i, i + Len(w) - 1) = w
    /\ (i = 1 \/ ~IsWord(t[i - 1]))
    /\ (i + Len(w) > Len(t) \/ ~IsWord(t[i + Len(w)]))

\* the words the normalized text is said never to hold
BannedWords ==
  { <<"p","l","e","a","s","e">>, <<"t","h","a","n","k","s">>, <<"h","i">>,
    <<"h","e","l","l","o">>, <<"d","e","a","r">>, <<"r","e","g","a","r","d","s">> }

\* the courtesy phrases, the two-word one among them
CourtesyPhrases == BannedWords \cup { <<"t","h","a","n","k"," ","y","o","u">> }

\* t is one courtesy phrase and nothing else, whatever its capitals
OnlyCourtesy(t) == Lower(t) \in CourtesyPhrases

C24_Normalized(t) ==
  Only({/\ \A w \in BannedWords : ~HasWholeWord(n, w)
        /\ OnlyCourtesy(t) => n = <<>>
        /\ t = <<>> => n = <<>> : n \in {NormalizeText(t)}})

\* C24: the normalized text never holds please, thanks, hi, hello, dear or
\* regards as a whole word; a text that is one courtesy phrase, "Thank you"
\* among them, is normalized to the empty text; so is the empty text.
C24_CourtesyRemoved ==
  \A h \in CreateHandlers : \A t \in NormalizedFor(h) : C24_Normalized(t)

\* the pairs the scorer is called on: the request of handler h against a
\* stored record
ScoredPairs ==
  {<<req[h].doc, store[i]>> : h \in {g \in CreateHandlers : req[g].queried},
                              i \in Records}

\* sim as a fraction lies in [0, 1]
InUnitInterval(sim) == sim[2] > 0 /\ sim[1] >= 0 /\ sim[1] <= sim[2]

SameFraction(x, y) == x[1] * y[2] = y[1] * x[2]

SubjectsEqual(a, b) == Strip(Lower(a.subject)) = Strip(Lower(b.subject))

C25_Pair(a, b) ==
  Only({/\ SameFraction(ab, ba)
        /\ InUnitInterval(ab)
        /\ SubjectsEqual(a, b) => SameFraction(ab, ScoreWithBonus(a, b)) :
          ab \in {CalculateTextSimilarity(a, b)},
          ba \in {CalculateTextSimilarity(b, a)}})

\* C25: for every pair of complaints a, b the score of (a, b) equals the
\* score of (b, a), lies between 0 and 1, and with equal subjects (lowercase,
\* trimmed) is min(1, ratio + 0.1).
C25_ScoreSymmetric == \A p \in ScoredPairs : C25_Pair(p[1], p[2])

\* the first courtesy text is stored, inside the window, and handler h has
\* resolved a request with the second
CourtesyPair(h) ==
  /\ req[h].pc = "insert"
  /\ ~req[h].checkFailed
  /\ req[h].doc.description = CourtesySecond
  /\ store[1].description = CourtesyFirst
  /\ store[1].customerEmail = req[h].doc.customerEmail
  /\ store[1].subject = req[h].doc.subject
  /\ store[1].category = req[h].doc.category
  /\ store[1].createdDate >= req[h].cutoff

\* C26: "Item broken, thanks" submitted after "Hi, please help - item broken"
\* of the same customer scores above 0.85 against it and is resolved as its
\* duplicate.
C26_CourtesyScenario ==
  \A h \in CreateHandlers :
    CourtesyPair(h) =>
      /\ ~BelowThreshold(CalculateTextSimilarity(req[h].doc, store[1]))
      /\ ~AtThreshold(CalculateTextSimilarity(req[h].doc, store[1]))
      /\ req[h].orig = StrOf(1)
      /\ req[h].doc.isDuplicate

\* s without the white space around it, in lowercase
Core(s) ==
  LET inked == {i \in 1..Len(s) : ~IsSpace(s[i])}
  IN IF inked = {} THEN <<>>
     ELSE LET first == CHOOSE i \in inked : \A j \in inked : i <= j
              last == CHOOSE i \in inked : \A j \in inked : j <= i
          IN [k \in 1..(last - first + 1) |-> ToLower(s[first + k - 1])]

\* complaints whose addresses and subjects differ at most in letter case and
\* in the white space around them, with the same description
Respelled(a, b) ==
  /\ Core(a.customerEmail) = Core(b.customerEmail)
  /\ Core(a.subject) = Core(b.subject)
  /\ a.description = b.description

\* the complaints in the state that carry a contentHash
Hashed ==
  {store[i] : i \in Records} \cup
  {req[h].doc : h \in {g \in CreateHandlers : req[g].doc # NoDoc}}

\* C27: hashing a complaint again gives the digest it got, and complaints
\* whose addresses and subjects differ only in letter case or surrounding
\* white space, with the same description, have the same digest.
C27_HashInsensitive ==
  /\ \A a \in Hashed : GenerateContentHash(a) = a.contentHash
  /\ \A a, b \in Hashed : Respelled(a, b) => a.contentHash = b.contentHash

\* a request and a stored record spelled differently in address and subject,
\* with one digest
C27_Witness ==
  /\ req["h1"].doc # NoDoc
  /\ req["h1"].doc.customerEmail # store[1].customerEmail
  /\ req["h1"].doc.subject # store[1].subject
  /\ Respelled(req["h1"].doc, store[1])
  /\ req["h1"].doc.contentHash = store[1].contentHash

\* the ids named by the duplicate_linked entries of record o
LinkedIds(o) ==
  {ObjectId(store[o].processingHistory[n].details.duplicateComplaintId) :
     n \in LinkedEntries(o)}

InsertFailureStep(h) == req[h].pc = "insert" /\ req'[h].pc # "insert" /\ store' = store

\* no record of store st names id in its relatedComplaints or in a
\* duplicate_linked entry
Unnamed(st, id) ==
  \A o \in DOMAIN st :
    /\ \A n \in 1..Len(st[o].relatedComplaints) : st[o].relatedComplaints[n] # id
    /\ \A n \in 1..Len(st[o].processingHistory) :
         st[o].processingHistory[n].action = "duplicate_linked" =>
           st[o].processingHistory[n].details.duplicateComplaintId # StrOf(id)

\* C29: when insert_one fails, create_complaint raises: the step writes
\* nothing, no id is returned, the next step of the handler is a new request
\* and not a link update, and the store holds no record with the id of the
\* failed request and no original that names it.
C29_InsertFailure ==
  [][\A h \in CreateHandlers :
       /\ InsertFailureStep(h) =>
            /\ req'[h].pc = "raised"
            /\ req'[h].result = None
            /\ natural' = natural
       /\ (req[h].pc = "raised" /\ req'[h] # req[h]) =>
            (req'[h].pc = "exact" /\ store' = store)
       /\ req'[h].pc = "raised" =>
            (req'[h].id \notin DOMAIN store' /\ Unnamed(store', req'[h].id))]_vars

\* a request resolved against the stored original whose insert failed: the
\* original is as it was
C29_Witness ==
  /\ req["h1"].pc = "raised"
  /\ req["h1"].orig = StrOf(1)
  /\ Records = {1}
  /\ store[1].relatedComplaints = <<>>
  /\ Len(store[1].processingHistory) = 1
  /\ store[1].lastUpdated = store[1].createdDate

\* the records of the customer with address e that are flagged
FlaggedOf(e) == {i \in Flagged : store[i].customerEmail = e}

C30_Stats(s) ==
  LET top == s.top_duplicate_customers
  IN /\ s.duplicates + s.unique_complaints = s.total_complaints
     /\ \A n \in 1..Len(top) :
          top[n].duplicate_count = Cardinality(FlaggedOf(top[n]._id))
     /\ \A m, n \in 1..Len(top) :
          m < n => top[m].duplicate_count >= top[n].duplicate_count
     /\ Len(top) <= TopCustomersLimit

\* C30: on every store that create_complaint and its link update have made,
\* get_duplicate_stats reports duplicates + unique_complaints =
\* total_complaints, gives each listed customer the number of that
\* customer's flagged records as duplicate_count, lists them with
\* duplicate_count not increasing, and lists at most 10.
C30_StatsConsistent == \A s \in GetDuplicateStats(store) : C30_Stats(s)

\* eleven customers have duplicates and ten are listed, after a request
\* added a duplicate to the store
C30_Witness ==
  /\ Cardinality({store[i].customerEmail : i \in Flagged}) = TopCustomersLimit + 1
  /\ Finished("h1") /\ req["h1"].orig # None
  /\ \E s \in GetDuplicateStats(store) :
       /\ Len(s.top_duplicate_customers) = TopCustomersLimit
       /\ s.top_duplicate_customers[1].duplicate_count
            > s.top_duplicate_customers[TopCustomersLimit].duplicate_count

====
